---- MODULE Spec2Model ----
(***************************************************************************)
(* Trail engine (ParticleSystem) and vector field catalog (attractors) of  *)
(* the strange-attractor visualiser.                                       *)
(*                                                                         *)
(* Numbers.  The program computes in IEEE doubles and stores ring and      *)
(* render coordinates in Float32Array.  A number is modelled here as an    *)
(* integer count of 1/One units (fixed point), or one of three reserved    *)
(* values PInf, NInf, NaN.  A double holds magnitudes up to DblMax, a      *)
(* float32 up to F32Max < DblMax: an arithmetic result beyond DblMax is    *)
(* an infinity, and a finite double beyond F32Max becomes an infinity      *)
(* when it is stored in a Float32Array.  The ranges are far smaller than   *)
(* the real ones, their order and the IEEE rules for infinities and NaN    *)
(* are the real ones.                                                      *)
(***************************************************************************)
EXTENDS Integers, Sequences, FiniteSets, TLC

\* ------------------------------------------------------------------ bounds
MaxParticles == 2
MaxTrail == 3
MaxCalls == 2
MaxLookups == 4
DblMax == 1000000000
F32Max == 3000000

\* ----------------------------------------------------------------- numbers
\* Fixed-point denominator: 8/3, 5/6, 0.005 and every catalog value but
\* thomas.b are whole numbers of 1/6000.
One == 6 * 1000
Half == One \div 2

PInf == DblMax + 1
NInf == 0 - (DblMax + 1)
NaN == DblMax + 2

IsNaN(a) == a = NaN
IsInf(a) == a = PInf \/ a = NInf
isFinite(a) == ~IsNaN(a) /\ ~IsInf(a)

Abs(a) == IF a < 0 THEN 0 - a ELSE a
Sgn(a) == IF a < 0 THEN 0 - 1 ELSE IF a > 0 THEN 1 ELSE 0

\* A real magnitude as a double: beyond the double range it is an infinity.
Dbl(v) == IF v > DblMax THEN PInf ELSE IF v < 0 - DblMax THEN NInf ELSE v

Neg(a) == IF IsNaN(a) THEN NaN ELSE IF a = PInf THEN NInf ELSE IF a = NInf THEN PInf ELSE 0 - a

Add(a, b) ==
    IF IsNaN(a) \/ IsNaN(b) THEN NaN
    ELSE IF IsInf(a) /\ IsInf(b) THEN (IF a = b THEN a ELSE NaN)
    ELSE IF IsInf(a) THEN a
    ELSE IF IsInf(b) THEN b
    ELSE Dbl(a + b)

Sub(a, b) == Add(a, Neg(b))

\* Product of two finite magnitudes, rounded to the nearest unit.  The
\* factors are split into whole and fractional parts so that no intermediate
\* value leaves the range of the model's integers; a product beyond the
\* double range is an infinity.
SumMag(w, c1, c2, f) ==
    IF w + c1 > DblMax THEN PInf
    ELSE IF w + c1 + c2 > DblMax THEN PInf
    ELSE w + c1 + c2 + f

SplitMag(a1, a0, b1, b0) ==
    IF b1 > 0 /\ a1 > (DblMax \div One) \div b1 THEN PInf
    ELSE SumMag(a1 * b1 * One, a1 * b0, a0 * b1, (a0 * b0 + Half) \div One)

MulMag(A, B) ==
    IF B = 0 \/ A <= (2 * DblMax) \div B THEN (A * B + Half) \div One
    ELSE SplitMag(A \div One, A % One, B \div One, B % One)

Signed(s, m) == IF s < 0 THEN Neg(Dbl(m)) ELSE Dbl(m)

Mul(a, b) ==
    IF IsNaN(a) \/ IsNaN(b) THEN NaN
    ELSE IF IsInf(a) \/ IsInf(b)
         THEN (IF a = 0 \/ b = 0 THEN NaN
               ELSE IF Sgn(a) * Sgn(b) > 0 THEN PInf ELSE NInf)
    ELSE Signed(Sgn(a) * Sgn(b), MulMag(Abs(a), Abs(b)))

\* Mutant of DivInt: the quotient is taken in whole numbers.
DivInt_Whole(t, n) ==
    IF n = 0 THEN (IF t = 0 THEN NaN ELSE IF t > 0 THEN PInf ELSE NInf)
    ELSE (t \div n) * One

\* Quotient of two small non-negative integers as a number (t / trailLength).
\* 0/0 is NaN and t/0 an infinity, as in IEEE arithmetic.
DivInt(t, n) ==
    IF n = 0 THEN (IF t = 0 THEN NaN ELSE IF t > 0 THEN PInf ELSE NInf)
    ELSE Sgn(t) * Sgn(n) * ((2 * Abs(t) * One + Abs(n)) \div (2 * Abs(n)))

\* Storing a double in a Float32Array element.
ToF32(a) ==
    IF IsNaN(a) THEN NaN
    ELSE IF a > F32Max THEN PInf
    ELSE IF a < 0 - F32Max THEN NInf
    ELSE a

\* Math.sin, by Bhaskara's rational approximation on a half period.
PiU == 18850
SinHalf(x) == LET q == x * (PiU - x) IN (16 * q) \div ((5 * PiU * PiU - 4 * q) \div One)
Sin(a) ==
    IF ~isFinite(a) THEN NaN
    ELSE LET r == a % (2 * PiU)
         IN IF r <= PiU THEN SinHalf(r) ELSE 0 - SinHalf(r - PiU)

\* ----------------------------------------------------------------- catalog
attractorNames ==
    <<"lorenz", "thomas", "dadras", "rossler", "aizawa", "chen", "halvorsen", "sprott">>

FieldIds == {attractorNames[k] : k \in 1..Len(attractorNames)}

\* A parameter read p.key: a key the object lacks reads undefined, which
\* makes every arithmetic result NaN.
P(p, key) == IF key \in DOMAIN p THEN p[key] ELSE NaN

Euler(pos, d, dt) ==
    <<Add(pos[1], Mul(d[1], dt)), Add(pos[2], Mul(d[2], dt)), Add(pos[3], Mul(d[3], dt))>>

lorenzStep(pos, p, dt) ==
    LET x == pos[1]  y == pos[2]  z == pos[3]
        dx == Mul(P(p, "sigma"), Sub(y, x))
        dy == Sub(Mul(x, Sub(P(p, "rho"), z)), y)
        dz == Sub(Mul(x, y), Mul(P(p, "beta"), z))
    IN Euler(pos, <<dx, dy, dz>>, dt)

thomasStep(pos, p, dt) ==
    LET x == pos[1]  y == pos[2]  z == pos[3]
        dx == Sub(Sin(y), Mul(P(p, "b"), x))
        dy == Sub(Sin(z), Mul(P(p, "b"), y))
        dz == Sub(Sin(x), Mul(P(p, "b"), z))
    IN Euler(pos, <<dx, dy, dz>>, dt)

dadrasStep(pos, p, dt) ==
    LET x == pos[1]  y == pos[2]  z == pos[3]
        dx == Add(Sub(y, Mul(P(p, "a"), x)), Mul(Mul(P(p, "b"), y), z))
        dy == Add(Sub(Mul(P(p, "c"), y), Mul(x, z)), z)
        dz == Sub(Mul(Mul(P(p, "d"), x), y), Mul(P(p, "e"), z))
    IN Euler(pos, <<dx, dy, dz>>, dt)

rosslerStep(pos, p, dt) ==
    LET x == pos[1]  y == pos[2]  z == pos[3]
        dx == Sub(Neg(y), z)
        dy == Add(x, Mul(P(p, "a"), y))
        dz == Add(P(p, "b"), Mul(z, Sub(x, P(p, "c"))))
    IN Euler(pos, <<dx, dy, dz>>, dt)

aizawaStep(pos, p, dt) ==
    LET x == pos[1]  y == pos[2]  z == pos[3]
        zb == Sub(z, P(p, "b"))
        dx == Sub(Mul(zb, x), Mul(P(p, "d"), y))
        dy == Add(Mul(P(p, "d"), x), Mul(zb, y))
        cube == Mul(Mul(z, z), z)
        third == IF isFinite(cube) THEN Sgn(cube) * ((Abs(cube) + 1) \div 3) ELSE cube
        rad == Mul(Add(Mul(x, x), Mul(y, y)), Add(One, Mul(P(p, "e"), z)))
        last == Mul(Mul(Mul(Mul(P(p, "f"), z), x), x), x)
        dz == Add(Sub(Sub(Add(P(p, "c"), Mul(P(p, "a"), z)), third), rad), last)
    IN Euler(pos, <<dx, dy, dz>>, dt)

chenStep(pos, p, dt) ==
    LET x == pos[1]  y == pos[2]  z == pos[3]
        dx == Mul(P(p, "a"), Sub(y, x))
        dy == Add(Sub(Mul(Sub(P(p, "c"), P(p, "a")), x), Mul(x, z)), Mul(P(p, "c"), y))
        dz == Sub(Mul(x, y), Mul(P(p, "b"), z))
    IN Euler(pos, <<dx, dy, dz>>, dt)

halvorsenStep(pos, p, dt) ==
    LET x == pos[1]  y == pos[2]  z == pos[3]
        a == P(p, "a")
        four == 4 * One
        dx == Sub(Sub(Sub(Mul(Neg(a), x), Mul(four, y)), Mul(four, z)), Mul(y, y))
        dy == Sub(Sub(Sub(Mul(Neg(a), y), Mul(four, z)), Mul(four, x)), Mul(z, z))
        dz == Sub(Sub(Sub(Mul(Neg(a), z), Mul(four, x)), Mul(four, y)), Mul(x, x))
    IN Euler(pos, <<dx, dy, dz>>, dt)

sprottStep(pos, p, dt) ==
    LET x == pos[1]  y == pos[2]  z == pos[3]
        dx == Add(Add(y, Mul(Mul(P(p, "a"), x), y)), Mul(x, z))
        dy == Add(Sub(One, Mul(Mul(P(p, "b"), x), x)), Mul(y, z))
        dz == Sub(Sub(x, Mul(x, x)), Mul(y, y))
    IN Euler(pos, <<dx, dy, dz>>, dt)

\* The catalog: default parameters, time step and display scale of each field.
attractors ==
    [id \in FieldIds |->
        CASE id = "lorenz" ->
               [params |-> [sigma |-> 60000, rho |-> 168000, beta |-> 16000],
                dt |-> 30, scale |-> 9000]
          [] id = "thomas" ->
               [params |-> [b |-> 1249], dt |-> 240, scale |-> 48000]
          [] id = "dadras" ->
               [params |-> [a |-> 18000, b |-> 16200, c |-> 10200, d |-> 12000, e |-> 54000],
                dt |-> 24, scale |-> 12000]
          [] id = "rossler" ->
               [params |-> [a |-> 1200, b |-> 1200, c |-> 34200],
                dt |-> 60, scale |-> 15000]
          [] id = "aizawa" ->
               [params |-> [a |-> 5700, b |-> 4200, c |-> 3600, d |-> 21000, e |-> 1500, f |-> 600],
                dt |-> 30, scale |-> 60000]
          [] id = "chen" ->
               [params |-> [a |-> 240000, b |-> 18000, c |-> 168000],
                dt |-> 12, scale |-> 7200]
          [] id = "halvorsen" ->
               [params |-> [a |-> 11340], dt |-> 30, scale |-> 24000]
          [] id = "sprott" ->
               [params |-> [a |-> 12420, b |-> 10740], dt |-> 120, scale |-> 30000]]

\* attractor.step(x, y, z, params, dt)
step(id, pos, p, dt) ==
    CASE id = "lorenz" -> lorenzStep(pos, p, dt)
      [] id = "thomas" -> thomasStep(pos, p, dt)
      [] id = "dadras" -> dadrasStep(pos, p, dt)
      [] id = "rossler" -> rosslerStep(pos, p, dt)
      [] id = "aizawa" -> aizawaStep(pos, p, dt)
      [] id = "chen" -> chenStep(pos, p, dt)
      [] id = "halvorsen" -> halvorsenStep(pos, p, dt)
      [] id = "sprott" -> sprottStep(pos, p, dt)

\* The slider range <<min, max>> of each parameter of each field.
paramRanges ==
    [id \in FieldIds |->
        CASE id = "lorenz" -> [sigma |-> <<0, 120000>>, rho |-> <<0, 300000>>, beta |-> <<0, 60000>>]
          [] id = "thomas" -> [b |-> <<600, 1800>>]
          [] id = "dadras" ->
               [a |-> <<6000, 30000>>, b |-> <<6000, 30000>>, c |-> <<3000, 18000>>,
                d |-> <<6000, 24000>>, e |-> <<30000, 90000>>]
          [] id = "rossler" -> [a |-> <<600, 3000>>, b |-> <<600, 3000>>, c |-> <<18000, 60000>>]
          [] id = "aizawa" ->
               [a |-> <<3000, 9000>>, b |-> <<1800, 6000>>, c |-> <<1800, 6000>>,
                d |-> <<12000, 30000>>, e |-> <<600, 3000>>, f |-> <<300, 1800>>]
          [] id = "chen" -> [a |-> <<180000, 300000>>, b |-> <<6000, 30000>>, c |-> <<120000, 210000>>]
          [] id = "halvorsen" -> [a |-> <<6000, 18000>>]
          [] id = "sprott" -> [a |-> <<9000, 18000>>, b |-> <<6000, 15000>>]]

\* attractors[key]: reading a property of the catalog object.  A key the
\* object owns reads its descriptor; a key it inherits from Object.prototype
\* reads that member; any other key reads undefined.  The read never throws.
ObjectPrototypeKeys == {"toString", "constructor"}
Lookup(key) ==
    IF key \in FieldIds THEN [kind |-> "descriptor", value |-> attractors[key]]
    ELSE IF key \in ObjectPrototypeKeys THEN [kind |-> "inherited", value |-> <<key>>]
    ELSE [kind |-> "undefined", value |-> <<>>]

NoResult == [kind |-> "none", value |-> <<>>]

\* ------------------------------------------------------------------ inputs
\* Values of Math.random(), in [0, 1): three per sampled position.
RandA == <<5000, 5000, 5000>>
RandB == <<0, 3000, 5999>>

\* The random values drawn for a set of particles: the generator hands out
\* the two triples in turn, starting with either.
Draws(S) ==
    {[i \in S |-> IF (i + c) % 2 = 0 THEN RandA ELSE RandB] :
        c \in 0..1}

\* THREE.Color values (r, g, b in [0, 1]).
Indigo == <<2329, 2400, 5671>>
Pink == <<5553, 1694, 3600>>
White == <<One, One, One>>
Black == <<0, 0, 0>>
ColorPairs == {<<Indigo, Pink>>, <<White, Black>>}
\* The color endpoints the driver constructs the engine with.
ConstructColors == {<<Indigo, Pink>>}

\* Fields the engine is driven with.
Fields == {"lorenz", "thomas"}

ParticleCounts == (0 - 1)..MaxParticles
TrailLengths == (0 - 1)..MaxTrail

\* Speed multipliers: the GUI default and maximum, and a non-finite one.
Speeds == {One, 3 * One, NaN}

\* Parameter objects handed to setParams for a field: its defaults, every
\* value doubled, every value NaN, and one value far outside its range.
Big == 150000 * One
OutOfRange(id) ==
    LET d == attractors[id].params
    IN IF "rho" \in DOMAIN d THEN [d EXCEPT !["rho"] = Big] ELSE [k \in DOMAIN d |-> Big]
ParamChoices(id) ==
    LET d == attractors[id].params
    IN {d, [k \in DOMAIN d |-> 2 * d[k]], [k \in DOMAIN d |-> NaN], OutOfRange(id)}

\* ------------------------------------------------------------------ engine
Zero3 == <<0, 0, 0>>

\* One sampled position: (Math.random() - 0.5) * 2 * scale, z shifted by 25,
\* as stored in a Float32Array ring slot.
SamplePosition(r, scale) ==
    <<ToF32(Mul(Mul(r[1] - Half, 2 * One), scale)),
      ToF32(Mul(Mul(r[2] - Half, 2 * One), scale)),
      ToF32(Add(Mul(Mul(r[3] - Half, 2 * One), scale), 25 * One))>>

\* Mutant of lerpColors: the blend runs from the second color to the first.
lerpColors_Swapped(c1, c2, alpha) ==
    <<Add(c2[1], Mul(Sub(c1[1], c2[1]), alpha)),
      Add(c2[2], Mul(Sub(c1[2], c2[2]), alpha)),
      Add(c2[3], Mul(Sub(c1[3], c2[3]), alpha))>>

\* new THREE.Color().lerpColors(c1, c2, alpha)
lerpColors(c1, c2, alpha) ==
    <<Add(c1[1], Mul(Sub(c2[1], c1[1]), alpha)),
      Add(c1[2], Mul(Sub(c2[2], c1[2]), alpha)),
      Add(c1[3], Mul(Sub(c2[3], c1[3]), alpha))>>

Store3(v) == <<ToF32(v[1]), ToF32(v[2]), ToF32(v[3])>>

\* updateBuffers: every point (i, t) with i < particleCount, t < trailLength
\* is rewritten; a buffer element beyond them keeps its value.
updateBuffers(e) ==
    LET scale == attractors[e.currentAttractor].scale
        n == e.particleCount
        L == e.trailLength
        ring == e.trailPositions
        index == e.trailIndex
        total == IF n > 0 /\ L > 0 THEN n * L ELSE 0
        trailFactor == [t \in 0..(L - 1) |-> DivInt(t, L)]
        color == [t \in 0..(L - 1) |->
                    Store3(lerpColors(e.colorEnd, e.colorStart, trailFactor[t]))]
        size == [t \in 0..(L - 1) |-> ToF32(Mul(15000, Sub(One, Mul(trailFactor[t], 4200))))]
        scaled == [t \in 0..(L - 1) |-> [i \in 0..(n - 1) |->
                    LET r == ring[t][i]
                    IN Store3(<<Mul(r[1], scale), Mul(r[2], scale), Mul(r[3], scale)>>)]]
        old == e.positions
        oldColors == e.colors
        oldSizes == e.sizes
    IN [e EXCEPT
          !.positions = [k \in DOMAIN old |->
              IF k < total THEN scaled[(index + (k % L)) % L][k \div L] ELSE old[k]],
          !.colors = [k \in DOMAIN oldColors |->
              IF k < total THEN color[k % L] ELSE oldColors[k]],
          !.sizes = [k \in DOMAIN oldSizes |->
              IF k < total THEN size[k % L] ELSE oldSizes[k]]]

\* Mutant of initializeParticles: only the current slot is reseeded.
initializeParticles_CurrentSlotOnly(e, rnd) ==
    LET scale == attractors[e.currentAttractor].scale
    IN updateBuffers([e EXCEPT
          !.trailPositions = [t \in DOMAIN e.trailPositions |->
              [i \in DOMAIN e.trailPositions[t] |->
                  IF t = e.trailIndex THEN SamplePosition(rnd[i], scale)
                  ELSE e.trailPositions[t][i]]]])

\* rnd[i] is the triple of Math.random() values drawn for particle i.
initializeParticles(e, rnd) ==
    LET scale == attractors[e.currentAttractor].scale
    IN updateBuffers([e EXCEPT
          !.trailPositions = [t \in DOMAIN e.trailPositions |->
              [i \in DOMAIN e.trailPositions[t] |-> SamplePosition(rnd[i], scale)]]])

\* Mutant of StepResult: the speed multiplier is ignored.
StepResult_NoSpeed(e, speed, i) ==
    step(e.currentAttractor, e.trailPositions[e.trailIndex][i], e.currentParams,
         attractors[e.currentAttractor].dt)

\* The step function's result for particle i at its current position.
StepResult(e, speed, i) ==
    step(e.currentAttractor, e.trailPositions[e.trailIndex][i], e.currentParams,
         Mul(attractors[e.currentAttractor].dt, speed))

Finite3(v) == isFinite(v[1]) /\ isFinite(v[2]) /\ isFinite(v[3])

\* Particles whose step result has a non-finite coordinate: the ones update
\* draws random values for.
Diverged(e, speed) ==
    {i \in 0..(e.particleCount - 1) : ~Finite3(StepResult(e, speed, i))}

\* Mutant of nextIndexOf: the ring is rotated the other way.
nextIndexOf_Forward(e) == (e.trailIndex + 1) % e.trailLength

nextIndexOf(e) == (e.trailIndex + e.trailLength - 1) % e.trailLength

\* Mutant of update: a diverged particle is stored as stepped, not resampled.
update_NoResample(e, speed, rnd) ==
    LET nextIndex == nextIndexOf(e)
        nextTrail == [i \in 0..(e.particleCount - 1) |-> Store3(StepResult(e, speed, i))]
    IN updateBuffers([e EXCEPT !.trailPositions[nextIndex] = nextTrail,
                               !.trailIndex = nextIndex])

\* Mutant of update: the new position is written into the current slot too.
update_Duplicate(e, speed, rnd) ==
    LET nextTrail == [i \in 0..(e.particleCount - 1) |->
                        IF ~Finite3(StepResult(e, speed, i))
                        THEN SamplePosition(rnd[i], attractors[e.currentAttractor].scale)
                        ELSE Store3(StepResult(e, speed, i))]
    IN updateBuffers([e EXCEPT !.trailPositions =
                          [t \in DOMAIN e.trailPositions |->
                              IF t = nextIndexOf(e) \/ t = e.trailIndex THEN nextTrail
                              ELSE e.trailPositions[t]],
                               !.trailIndex = nextIndexOf(e)])

\* Mutant of update: the renderable buffers are not repacked.
update_NoRepack(e, speed, rnd) ==
    [e EXCEPT !.trailPositions[nextIndexOf(e)] =
                  [i \in 0..(e.particleCount - 1) |->
                      IF ~Finite3(StepResult(e, speed, i))
                      THEN SamplePosition(rnd[i], attractors[e.currentAttractor].scale)
                      ELSE Store3(StepResult(e, speed, i))],
              !.trailIndex = nextIndexOf(e)]

update(e, speed, rnd) ==
    LET scale == attractors[e.currentAttractor].scale
        nextIndex == nextIndexOf(e)
        stepped == [i \in 0..(e.particleCount - 1) |-> StepResult(e, speed, i)]
        nextTrail == [i \in 0..(e.particleCount - 1) |->
            IF ~Finite3(stepped[i])
            THEN SamplePosition(rnd[i], scale)
            ELSE Store3(stepped[i])]
    IN updateBuffers([e EXCEPT !.trailPositions[nextIndex] = nextTrail,
                               !.trailIndex = nextIndex])

setAttractor(e, attractor, rnd) ==
    initializeParticles([e EXCEPT !.currentAttractor = attractor,
                                  !.currentParams = attractors[attractor].params], rnd)

\* Mutant of setParams: a snapshot holding a non-finite value is refused.
setParams_Validated(e, params) ==
    IF \E k \in DOMAIN params : ~isFinite(params[k]) THEN e
    ELSE [e EXCEPT !.currentParams = params]

\* Mutant of setParams: the trail rotation is restarted.
setParams_Restart(e, params) == [e EXCEPT !.currentParams = params, !.trailIndex = 0]

setParams(e, params) == [e EXCEPT !.currentParams = params]

\* Mutant of setColors: the buffers are repacked at once.
setColors_Repack(e, start, end) ==
    updateBuffers([e EXCEPT !.colorStart = start, !.colorEnd = end])

setColors(e, start, end) == [e EXCEPT !.colorStart = start, !.colorEnd = end]

\* Mutant of getParticleCount: the trail length is left out.
getParticleCount_NoTrail(e) == e.particleCount

getParticleCount(e) == e.particleCount * e.trailLength

dispose(e) == [e EXCEPT !.disposed = TRUE]

\* The constructor throws where a typed array is given a negative length.
ConstructorThrows(particleCount, trailLength) ==
    particleCount * trailLength < 0

\* The object the constructor builds, when it does not throw.
construct(attractor, particleCount, trailLength, colorStart, colorEnd, rnd) ==
    LET totalPoints == particleCount * trailLength
    IN initializeParticles(
         [particleCount |-> particleCount,
          trailLength |-> trailLength,
          colorStart |-> colorStart,
          colorEnd |-> colorEnd,
          currentAttractor |-> attractor,
          currentParams |-> attractors[attractor].params,
          positions |-> [k \in 0..(totalPoints - 1) |-> Zero3],
          colors |-> [k \in 0..(totalPoints - 1) |-> Zero3],
          sizes |-> [k \in 0..(totalPoints - 1) |-> 0],
          trailPositions |-> [t \in 0..(trailLength - 1) |->
                                 [i \in 0..(particleCount - 1) |-> Zero3]],
          trailIndex |-> 0,
          disposed |-> FALSE], rnd)

\* Before the constructor has run there is no engine.
NoEngine ==
    [particleCount |-> 0, trailLength |-> 0, colorStart |-> Black, colorEnd |-> Black,
     currentAttractor |-> "lorenz", currentParams |-> attractors["lorenz"].params,
     positions |-> [k \in {} |-> Zero3], colors |-> [k \in {} |-> Zero3],
     sizes |-> [k \in {} |-> 0], trailPositions |-> [t \in {} |-> Zero3],
     trailIndex |-> 0, disposed |-> FALSE]

\* ------------------------------------------------------------------- state
VARIABLES
    pc,       \* "start": not constructed; "live": constructed; "threw": the constructor threw
    ps,       \* the ParticleSystem object
    call,     \* the last call made: its name and arguments
    err,      \* the error the last call threw, or "none"
    ret,      \* the value the last getParticleCount returned
    calls,    \* number of calls made after construction
    pending,  \* <<p>> after setParams(p) until the next update or reseed, else <<>>
    twin,     \* a second run of the same engine, for comparing two call sequences
    forked,   \* TRUE once the second run has been started
    found,    \* what the last catalog lookup evaluated to
    settings, \* the driver's settings object
    sliders,  \* the params object the parameter sliders of the driver edit
    gen,      \* how many engines the driver has constructed: the installed one is the latest
    callee,   \* which engine (by construction number) the driver's last call went to
    retired,  \* the engine the driver replaced last, as it was left
    history   \* per particle, the positions written since the last reseed, newest first

vars == <<pc, ps, call, err, ret, calls, pending, twin, forked,
          found, settings, sliders, gen, callee, retired, history>>

\* The state of the catalog lookups, of the driver and of the trail record:
\* calls made on the engine directly leave it alone.
elsewhere == <<found, settings, sliders, gen, callee, retired, history>>

NoArg == [op |-> "", speed |-> 0, attractor |-> "", params |-> <<>>, start |-> Black,
          end |-> Black, particleCount |-> 0, trailLength |-> 0]

\* const settings = {...}: the sizes stand for 5000 particles of trail 50.
InitialSettings ==
    [attractor |-> "lorenz", particleCount |-> 2, trailLength |-> 2,
     speed |-> One, colorStart |-> Indigo, colorEnd |-> Pink]

Init ==
    /\ pc = "start"
    /\ ps = NoEngine
    /\ call = NoArg
    /\ err = "none"
    /\ ret = 0
    /\ calls = 0
    /\ pending = <<>>
    /\ twin = NoEngine
    /\ forked = FALSE
    /\ found = NoResult
    /\ settings = InitialSettings
    /\ sliders = <<>>
    /\ gen = 0
    /\ callee = 0
    /\ retired = NoEngine
    /\ history = <<>>

\* The methods are called on a constructed engine of positive sizes.
Usable == pc = "live" /\ ps.particleCount > 0 /\ ps.trailLength > 0 /\ calls < MaxCalls

\* new ParticleSystem(attractor, {particleCount, trailLength, colorStart, colorEnd})
Construct ==
    /\ pc = "start"
    /\ \E attractor \in Fields, n \in ParticleCounts, L \in TrailLengths, cp \in ConstructColors :
         \E rnd \in Draws(0..(n - 1)) :
           /\ call' = [NoArg EXCEPT !.op = "construct", !.attractor = attractor,
                                    !.particleCount = n, !.trailLength = L,
                                    !.start = cp[1], !.end = cp[2]]
           /\ IF ConstructorThrows(n, L)
              THEN /\ pc' = "threw"
                   /\ err' = "RangeError"
                   /\ ps' = ps
              ELSE /\ pc' = "live"
                   /\ err' = "none"
                   /\ ps' = construct(attractor, n, L, cp[1], cp[2], rnd)
    /\ UNCHANGED <<ret, calls, pending, twin, forked>>
    /\ UNCHANGED elsewhere

\* particleSystem.update(speed)
Update ==
    /\ Usable
    /\ \E speed \in Speeds :
         \E rnd \in Draws(Diverged(ps, speed)) :
           /\ ps' = update(ps, speed, rnd)
           /\ call' = [NoArg EXCEPT !.op = "update", !.speed = speed]
    /\ err' = "none"
    /\ calls' = calls + 1
    /\ pending' = <<>>
    /\ UNCHANGED <<pc, ret, twin, forked>>
    /\ UNCHANGED elsewhere

\* particleSystem.setAttractor(attractor)
SetAttractor ==
    /\ Usable
    /\ \E attractor \in Fields :
         \E rnd \in Draws(0..(ps.particleCount - 1)) :
           /\ ps' = setAttractor(ps, attractor, rnd)
           /\ call' = [NoArg EXCEPT !.op = "setAttractor", !.attractor = attractor]
    /\ err' = "none"
    /\ calls' = calls + 1
    /\ pending' = <<>>
    /\ UNCHANGED <<pc, ret, twin, forked>>
    /\ UNCHANGED elsewhere

\* particleSystem.setParams(params)
SetParams ==
    /\ Usable
    /\ \E params \in ParamChoices(ps.currentAttractor) :
           /\ ps' = setParams(ps, params)
           /\ call' = [NoArg EXCEPT !.op = "setParams", !.params = params]
           /\ pending' = <<params>>
    /\ err' = "none"
    /\ calls' = calls + 1
    /\ UNCHANGED <<pc, ret, twin, forked>>
    /\ UNCHANGED elsewhere

\* particleSystem.setColors(start, end)
SetColors ==
    /\ Usable
    /\ \E cp \in ColorPairs :
           /\ ps' = setColors(ps, cp[1], cp[2])
           /\ call' = [NoArg EXCEPT !.op = "setColors", !.start = cp[1], !.end = cp[2]]
    /\ err' = "none"
    /\ calls' = calls + 1
    /\ UNCHANGED <<pc, ret, pending, twin, forked>>
    /\ UNCHANGED elsewhere

\* particleSystem.getParticleCount()
GetParticleCount ==
    /\ Usable
    /\ ret' = getParticleCount(ps)
    /\ call' = [NoArg EXCEPT !.op = "getParticleCount"]
    /\ err' = "none"
    /\ calls' = calls + 1
    /\ UNCHANGED <<pc, ps, pending, twin, forked>>
    /\ UNCHANGED elsewhere

\* particleSystem.dispose()
Dispose ==
    /\ Usable
    /\ ps' = dispose(ps)
    /\ call' = [NoArg EXCEPT !.op = "dispose"]
    /\ err' = "none"
    /\ calls' = calls + 1
    /\ UNCHANGED <<pc, ret, pending, twin, forked>>
    /\ UNCHANGED elsewhere

Next ==
    \/ Construct
    \/ Update
    \/ SetAttractor
    \/ SetParams
    \/ SetColors
    \/ GetParticleCount
    \/ Dispose

Spec == Init /\ [][Next]_vars

\* ---------------------------------------------------------------- two runs
\* From any state of the engine a second run is started that first calls
\* setParams with the active field's declared defaults; from then on both
\* runs are advanced by the same update calls with the same random values.
Fork ==
    /\ Usable
    /\ ~forked
    /\ forked' = TRUE
    /\ twin' = setParams(ps, attractors[ps.currentAttractor].params)
    /\ call' = [NoArg EXCEPT !.op = "fork"]
    /\ UNCHANGED <<pc, ps, err, ret, calls, pending>>
    /\ UNCHANGED elsewhere

UpdateBoth ==
    /\ Usable
    /\ forked
    /\ \E speed \in Speeds :
         \E rnd \in Draws(Diverged(ps, speed) \cup Diverged(twin, speed)) :
           /\ ps' = update(ps, speed, rnd)
           /\ twin' = update(twin, speed, rnd)
           /\ call' = [NoArg EXCEPT !.op = "update", !.speed = speed]
    /\ err' = "none"
    /\ calls' = calls + 1
    /\ pending' = <<>>
    /\ UNCHANGED <<pc, ret, forked>>
    /\ UNCHANGED elsewhere

Single == ~forked /\ Next

NextTwin == Single \/ Fork \/ UpdateBoth

SpecTwin == Init /\ [][NextTwin]_vars

\* ------------------------------------------------------------------ driver
\* The driver (main.ts) keeps the engine in the module-level variable
\* particleSystem and runs one callback at a time: the frame callback and the
\* callbacks of the GUI controls.  Each action below is one callback, run to
\* completion.  gen numbers the engines in the order they are constructed;
\* ps is engine number gen, retired the one before it.
MaxEvents == 3

\* Values the Count and Trail Length controls are set to (for 1000..20000
\* and 10..100), the Speed control, and the two values a parameter slider
\* is moved to: the ends of its range.
DriverCounts == {1, 2}
DriverTrails == {1, 2}
DriverSpeeds == {One, 3 * One}
SliderValues(id, key) == {paramRanges[id][key][1], paramRanges[id][key][2]}
DriverDraws(S) == {[i \in S |-> RandB]}

\* Mutant of particleSystemRef: the callback keeps the engine it was made for.
particleSystemRef_Captured(installed, madeFor) == madeFor

\* The engine a callback's `particleSystem` denotes: the callback reads the
\* module-level variable when it runs, whatever engine was installed when
\* the callback was registered.
particleSystemRef(installed, madeFor) == installed

\* createParamFolder(attractor): the object the sliders edit, with the
\* number of the engine installed when the folder was made.
createParamFolder(id, installed) == [params |-> attractors[id].params, madeFor |-> installed]

\* new ParticleSystem(attractors[settings.attractor], {...settings})
newParticleSystem(s, rnd) ==
    construct(s.attractor, s.particleCount, s.trailLength, s.colorStart, s.colorEnd, rnd)

Running == pc = "live" /\ gen > 0 /\ calls < MaxEvents

\* Module load: the engine is constructed, the parameter folder is built and
\* the frame loop is started.
Boot ==
    /\ pc = "start" /\ gen = 0 /\ calls = 0 /\ call.op = ""
    /\ \E rnd \in DriverDraws(0..(settings.particleCount - 1)) :
         ps' = newParticleSystem(settings, rnd)
    /\ pc' = "live"
    /\ gen' = 1
    /\ callee' = 1
    /\ ret' = getParticleCount(ps')
    /\ sliders' = createParamFolder(settings.attractor, 1)
    /\ call' = [NoArg EXCEPT !.op = "boot"]
    /\ UNCHANGED <<err, calls, pending, twin, forked, found, settings, retired, history>>

\* recreateParticleSystem(), with the settings already changed: its effect on
\* the engines, the engine numbering and the particle count display.
Recreate(s) ==
    /\ retired' = dispose(ps)
    /\ \E rnd \in DriverDraws(0..(s.particleCount - 1)) :
         ps' = newParticleSystem(s, rnd)
    /\ gen' = gen + 1
    /\ callee' = gen + 1
    /\ ret' = getParticleCount(ps')

\* animate(): particleSystem.update(settings.speed)
Frame ==
    /\ Running
    /\ LET ref == particleSystemRef(gen, 1)
       IN /\ callee' = ref
          /\ IF ref = gen
             THEN /\ \E rnd \in DriverDraws(Diverged(ps, settings.speed)) :
                       ps' = update(ps, settings.speed, rnd)
                  /\ retired' = retired
             ELSE /\ \E rnd \in DriverDraws(Diverged(retired, settings.speed)) :
                       retired' = update(retired, settings.speed, rnd)
                  /\ ps' = ps
    /\ call' = [NoArg EXCEPT !.op = "frame", !.speed = settings.speed]
    /\ calls' = calls + 1
    /\ UNCHANGED <<pc, err, ret, pending, twin, forked, found, settings, sliders, gen, history>>

\* The Type control: onChange(value)
FieldChange ==
    /\ Running
    /\ \E value \in Fields :
         LET s == [settings EXCEPT !.attractor = value]
         IN /\ settings' = s
            /\ Recreate(s)
            /\ sliders' = createParamFolder(value, gen + 1)
            /\ call' = [NoArg EXCEPT !.op = "field", !.attractor = value]
    /\ calls' = calls + 1
    /\ UNCHANGED <<pc, err, pending, twin, forked, found, history>>

\* A parameter slider: onChange, after the widget has written params[key]
ParamChange ==
    /\ Running
    /\ \E key \in DOMAIN sliders.params :
         \E v \in SliderValues(settings.attractor, key) :
           LET params == [sliders.params EXCEPT ![key] = v]
               ref == particleSystemRef(gen, sliders.madeFor)
           IN /\ sliders' = [sliders EXCEPT !.params = params]
              /\ callee' = ref
              /\ IF ref = gen
                 THEN ps' = setParams(ps, params) /\ retired' = retired
                 ELSE retired' = setParams(retired, params) /\ ps' = ps
              /\ call' = [NoArg EXCEPT !.op = "param", !.params = params]
    /\ calls' = calls + 1
    /\ UNCHANGED <<pc, err, ret, pending, twin, forked, found, settings, gen, history>>

\* The Color Start and Color End controls: onChange
ColorChange ==
    /\ Running
    /\ \E cp \in ColorPairs :
         LET ref == particleSystemRef(gen, 1)
         IN /\ settings' = [settings EXCEPT !.colorStart = cp[1], !.colorEnd = cp[2]]
            /\ callee' = ref
            /\ IF ref = gen
               THEN ps' = setColors(ps, cp[1], cp[2]) /\ retired' = retired
               ELSE retired' = setColors(retired, cp[1], cp[2]) /\ ps' = ps
            /\ call' = [NoArg EXCEPT !.op = "color", !.start = cp[1], !.end = cp[2]]
    /\ calls' = calls + 1
    /\ UNCHANGED <<pc, err, ret, pending, twin, forked, found, sliders, gen, history>>

\* The Count control: onFinishChange(recreateParticleSystem)
CountChange ==
    /\ Running
    /\ \E n \in DriverCounts :
         LET s == [settings EXCEPT !.particleCount = n]
         IN /\ settings' = s
            /\ Recreate(s)
            /\ call' = [NoArg EXCEPT !.op = "count", !.particleCount = n]
    /\ calls' = calls + 1
    /\ UNCHANGED <<pc, err, pending, twin, forked, found, sliders, history>>

\* The Trail Length control: onFinishChange(recreateParticleSystem)
TrailChange ==
    /\ Running
    /\ \E L \in DriverTrails :
         LET s == [settings EXCEPT !.trailLength = L]
         IN /\ settings' = s
            /\ Recreate(s)
            /\ call' = [NoArg EXCEPT !.op = "trail", !.trailLength = L]
    /\ calls' = calls + 1
    /\ UNCHANGED <<pc, err, pending, twin, forked, found, sliders, history>>

\* The Speed control writes settings.speed; it has no callback.
SpeedChange ==
    /\ Running
    /\ \E v \in DriverSpeeds :
         /\ settings' = [settings EXCEPT !.speed = v]
         /\ call' = [NoArg EXCEPT !.op = "speed", !.speed = v]
    /\ calls' = calls + 1
    /\ UNCHANGED <<pc, ps, err, ret, pending, twin, forked, found, sliders, gen, callee,
                   retired, history>>

NextDriver ==
    \/ Boot
    \/ Frame
    \/ FieldChange
    \/ ParamChange
    \/ ColorChange
    \/ CountChange
    \/ TrailChange
    \/ SpeedChange

SpecDriver == Init /\ [][NextDriver]_vars

\* ------------------------------------------------------------ trail record
\* An engine that is seeded, advanced frame after frame and now and then
\* reseeded, with a record of what was written: history.origin is trailIndex
\* at the last reseed and history.path[i] lists the positions written for
\* particle i since then, newest first, the seed position last.
MaxAdvances == 4

TrailSpeeds == {One, NaN}

\* The position initializeParticles writes for particle i.
Seeded(e, rnd) ==
    [i \in 0..(e.particleCount - 1) |->
        <<SamplePosition(rnd[i], attractors[e.currentAttractor].scale)>>]

\* The position update(speed) writes for particle i.
Arrival(e, speed, rnd, i) ==
    IF Finite3(StepResult(e, speed, i)) THEN Store3(StepResult(e, speed, i))
    ELSE SamplePosition(rnd[i], attractors[e.currentAttractor].scale)

\* new ParticleSystem(attractor, {particleCount, trailLength, ...})
Seed ==
    /\ pc = "start" /\ call.op = ""
    /\ \E attractor \in Fields, n \in 1..MaxParticles, L \in 1..MaxTrail, cp \in ColorPairs :
         \E rnd \in Draws(0..(n - 1)) :
           /\ ps' = construct(attractor, n, L, cp[1], cp[2], rnd)
           /\ history' = [origin |-> 0, path |-> Seeded(ps', rnd)]
           /\ call' = [NoArg EXCEPT !.op = "construct", !.attractor = attractor,
                                    !.particleCount = n, !.trailLength = L,
                                    !.start = cp[1], !.end = cp[2]]
    /\ pc' = "live"
    /\ UNCHANGED <<err, ret, calls, pending, twin, forked>>
    /\ UNCHANGED <<found, settings, sliders, gen, callee, retired>>

\* particleSystem.update(speed)
Advance ==
    /\ pc = "live" /\ history # <<>> /\ calls < MaxAdvances
    /\ \E speed \in TrailSpeeds :
         \E rnd \in Draws(Diverged(ps, speed)) :
           /\ ps' = update(ps, speed, rnd)
           /\ history' = [history EXCEPT !.path =
                  [i \in DOMAIN history.path |->
                      <<Arrival(ps, speed, rnd, i)>> \o history.path[i]]]
           /\ call' = [NoArg EXCEPT !.op = "update", !.speed = speed]
    /\ calls' = calls + 1
    /\ UNCHANGED <<pc, err, ret, pending, twin, forked>>
    /\ UNCHANGED <<found, settings, sliders, gen, callee, retired>>

\* particleSystem.setAttractor(attractor)
Reseed ==
    /\ pc = "live" /\ history # <<>> /\ calls < MaxAdvances
    /\ \E attractor \in Fields :
         \E rnd \in Draws(0..(ps.particleCount - 1)) :
           /\ ps' = setAttractor(ps, attractor, rnd)
           /\ history' = [origin |-> ps.trailIndex, path |-> Seeded(ps', rnd)]
           /\ call' = [NoArg EXCEPT !.op = "setAttractor", !.attractor = attractor]
    /\ calls' = calls + 1
    /\ UNCHANGED <<pc, err, ret, pending, twin, forked>>
    /\ UNCHANGED <<found, settings, sliders, gen, callee, retired>>

NextTrail == Seed \/ Advance \/ Reseed

SpecTrail == Init /\ [][NextTrail]_vars

\* ----------------------------------------------------------- catalog reads
\* Identifiers given to the lookup: the eight known ones, case variants and
\* partial names of them, the empty string, and names the object inherits.
CaseVariants == {"Lorenz", "LORENZ", "Thomas", "Dadras", "Rossler", "Aizawa", "Chen",
                 "Halvorsen", "Sprott"}
PartialNames == {"lor", "lorenzz", "thom", "dad", "ross", "aiz", "che", "halvor", "spro"}
Identifiers == FieldIds \cup CaseVariants \cup PartialNames \cup ObjectPrototypeKeys \cup {"", "unknown"}

\* attractors[identifier]
Get ==
    /\ pc = "start"
    /\ calls < MaxLookups
    /\ \E identifier \in Identifiers :
         /\ found' = Lookup(identifier)
         /\ call' = [NoArg EXCEPT !.op = "get", !.attractor = identifier]
    /\ err' = "none"
    /\ calls' = calls + 1
    /\ UNCHANGED <<pc, ps, ret, pending, twin, forked>>
    /\ UNCHANGED <<settings, sliders, gen, callee, retired, history>>

NextCatalog == Get

SpecCatalog == Init /\ [][NextCatalog]_vars

\* ------------------------------------------------------------------ claims
Particles(e) == 0..(e.particleCount - 1)
Slots(e) == 0..(e.trailLength - 1)
Points(e) == 0..(e.particleCount * e.trailLength - 1)
ScaleOf(e) == attractors[e.currentAttractor].scale
DtOf(e) == attractors[e.currentAttractor].dt

\* v lies in the seeding cube of half-width s centred at (0, 0, 25).
InCube(v, s) ==
    /\ Finite3(v)
    /\ 0 - s <= v[1] /\ v[1] <= s
    /\ 0 - s <= v[2] /\ v[2] <= s
    /\ 25 * One - s <= v[3] /\ v[3] <= 25 * One + s

\* C1: after construct and any number of advance calls, with any speed and
\* any parameter snapshot, every coordinate of every ring slot and of the
\* renderable position buffer is finite.
C1_OutputAlwaysFinite ==
    pc = "live" =>
        /\ \A t \in DOMAIN ps.trailPositions : \A i \in DOMAIN ps.trailPositions[t] :
               Finite3(ps.trailPositions[t][i])
        /\ \A k \in DOMAIN ps.positions : Finite3(ps.positions[k])

\* C2: construct with particleCount <= 0 or trailLength < 1 fails with
\* InvalidConfigurationError and leaves no engine or buffer allocated;
\* construct fails for no other reason.
C2_InvalidSizesRejected ==
    call.op = "construct" =>
        IF call.particleCount <= 0 \/ call.trailLength < 1
        THEN err = "InvalidConfigurationError" /\ pc = "threw" /\ ps = NoEngine
        ELSE err = "none" /\ pc = "live"

\* C3: once dispose has been called, every later operation fails with
\* UseAfterDisposeError and changes no state of the engine.
C3_UseAfterDisposeFails ==
    [][ps.disposed => (err' = "UseAfterDisposeError" /\ ps' = ps /\ ret' = ret)]_vars

\* C4: in an advance, a particle whose step result has a non-finite
\* coordinate gets a freshly sampled position inside the seeding cube of the
\* active field in its target ring slot, no error is raised, and every other
\* particle's target slot receives its own step result.
C4_DivergedParticleResampled ==
    [][call'.op = "update" =>
        /\ err' = "none"
        /\ \A i \in Particles(ps) :
             LET r == step(ps.currentAttractor, ps.trailPositions[ps.trailIndex][i],
                           ps.currentParams, Mul(DtOf(ps), call'.speed))
                 target == ps'.trailPositions[nextIndexOf(ps)][i]
             IN IF Finite3(r) THEN target = Store3(r) ELSE InCube(target, ScaleOf(ps))]_vars

\* The slot that was current before the last update (trailLength >= 2).
PrevSlot(e) == (e.trailIndex + 1) % e.trailLength
StepFromPrev(e, speed, i) ==
    step(e.currentAttractor, e.trailPositions[PrevSlot(e)][i], e.currentParams,
         Mul(DtOf(e), speed))

\* An update has just resampled one particle and stepped the other.
C4_Witness ==
    /\ pc = "live" /\ call.op = "update"
    /\ ps.particleCount = 2 /\ ps.trailLength >= 2
    /\ \E i, j \in Particles(ps) :
         /\ ~Finite3(StepFromPrev(ps, call.speed, i))
         /\ InCube(ps.trailPositions[ps.trailIndex][i], ScaleOf(ps))
         /\ Finite3(StepFromPrev(ps, call.speed, j))
         /\ ps.trailPositions[ps.trailIndex][j] = Store3(StepFromPrev(ps, call.speed, j))

\* C5: right after construct(field, ...) or setActiveField(field), for every
\* particle all ring slots hold one and the same position inside the cube of
\* half-width field.displayScale centred at (0, 0, 25), the working
\* parameters are the field's defaults, and the renderable buffer has been
\* repacked from these positions with the new field's displayScale.
C5_ReseedIsTotal ==
    (pc = "live" /\ call.op \in {"construct", "setAttractor"}
       /\ ps.particleCount > 0 /\ ps.trailLength > 0) =>
        LET s == attractors[call.attractor].scale
        IN /\ ps.currentAttractor = call.attractor
           /\ ps.currentParams = attractors[call.attractor].params
           /\ \A i \in Particles(ps) :
                /\ InCube(ps.trailPositions[0][i], s)
                /\ \A t \in Slots(ps) : ps.trailPositions[t][i] = ps.trailPositions[0][i]
           /\ \A k \in Points(ps) :
                LET v == ps.trailPositions[0][k \div ps.trailLength]
                IN ps.positions[k] = Store3(<<Mul(v[1], s), Mul(v[2], s), Mul(v[3], s)>>)
           /\ DOMAIN ps.positions = Points(ps)

\* setActiveField has just replaced lorenz trails that had advanced by thomas seeds.
C5_Witness ==
    /\ pc = "live" /\ call.op = "setAttractor" /\ call.attractor = "thomas"
    /\ ps.trailLength = 3 /\ ps.trailIndex # 0 /\ ps.particleCount = 2
    /\ ps.trailPositions[0][0] # ps.trailPositions[0][1]

\* C6: setParameters(p) replaces only the working parameter snapshot (ring,
\* trailIndex, buffers, field, colors and sizes are unchanged), accepts any
\* numeric values without range validation, and the first advance after the
\* call integrates every particle with exactly p.
C6_SetParamsOnlySnapshot ==
    [][/\ call'.op = "setParams" =>
             /\ err' = "none"
             /\ ps'.currentParams = call'.params
             /\ ps' = [ps EXCEPT !.currentParams = call'.params]
       /\ (call'.op = "update" /\ pending # <<>>) =>
             \A i \in Particles(ps) :
                LET r == step(ps.currentAttractor, ps.trailPositions[ps.trailIndex][i],
                              pending[1], Mul(DtOf(ps), call'.speed))
                IN Finite3(r) => ps'.trailPositions[ps'.trailIndex][i] = Store3(r)]_vars

\* An advance has just integrated with out-of-range parameters given to setParams.
C6_Witness ==
    /\ pc = "live" /\ call.op = "update" /\ isFinite(call.speed)
    /\ ps.trailLength >= 2
    /\ ps.currentParams = [k \in DOMAIN ps.currentParams |->
                              2 * attractors[ps.currentAttractor].params[k]]
    /\ \A i \in Particles(ps) :
         /\ Finite3(StepFromPrev(ps, call.speed, i))
         /\ ps.trailPositions[ps.trailIndex][i] = Store3(StepFromPrev(ps, call.speed, i))
         /\ ps.trailPositions[ps.trailIndex][i] #
              Store3(step(ps.currentAttractor, ps.trailPositions[PrevSlot(ps)][i],
                          attractors[ps.currentAttractor].params, Mul(DtOf(ps), call.speed)))

\* C7: particlePointCount() equals particleCount x trailLength given to
\* construct, equals the number of points of the renderable buffer, and keeps
\* that value through advance, setParameters, setColors and setActiveField.
C7_PointCount ==
    [][/\ (call'.op = "construct" /\ pc' = "live") =>
             /\ getParticleCount(ps') = call'.particleCount * call'.trailLength
             /\ Cardinality(DOMAIN ps'.positions) = call'.particleCount * call'.trailLength
       /\ pc = "live" =>
             /\ getParticleCount(ps') = getParticleCount(ps)
             /\ DOMAIN ps'.positions = DOMAIN ps.positions
       /\ call'.op = "getParticleCount" =>
             /\ ret' = ps.particleCount * ps.trailLength
             /\ ret' = Cardinality(DOMAIN ps.positions)]_vars

\* getParticleCount has just answered on an engine that was advanced.
C7_Witness ==
    /\ pc = "live" /\ call.op = "getParticleCount"
    /\ ps.particleCount = 2 /\ ps.trailLength = 3 /\ ret = 6
    /\ ps.trailIndex # 0

SameTrajectory(a, b) ==
    /\ a.trailPositions = b.trailPositions
    /\ a.trailIndex = b.trailIndex
    /\ a.positions = b.positions

\* C8 (as claimed): from every engine state, setParameters(defaults) followed
\* by k advances gives the same ring, trailIndex and renderable buffer as the
\* k advances alone, with the same random values.
C8_DefaultsNeutralEverywhere == forked => SameTrajectory(ps, twin)

\* C8 (amended): the same, from every engine state whose working parameter
\* snapshot equals the active field's defaults.
C8_DefaultsNeutralFromDefaults ==
    (forked /\ ps.currentParams = attractors[ps.currentAttractor].params) =>
        SameTrajectory(ps, twin)

\* Both runs have been advanced after the second one called setParams(defaults).
C8_Witness ==
    /\ forked /\ call.op = "update" /\ isFinite(call.speed)
    /\ ps.currentParams = attractors[ps.currentAttractor].params
    /\ ps.trailLength = 3 /\ ps.trailIndex = 1
    /\ SameTrajectory(ps, twin)

\* C9: advance(speed) moves each particle by one explicit Euler step of the
\* active field from its current position, with the working parameters and
\* effectiveDt = timeStep x speed; for lorenz with one particle, one slot,
\* default parameters and position (1, 1, 26), advance(1) gives
\* (1, 1.005, 26 + (1 - (8/3) * 26) * 0.005).
C9_EulerStep ==
    [][call'.op = "update" =>
        /\ \A i \in Particles(ps) :
             LET cur == ps.trailPositions[ps.trailIndex][i]
                 r == step(ps.currentAttractor, cur, ps.currentParams,
                           Mul(DtOf(ps), call'.speed))
             IN Finite3(r) => ps'.trailPositions[ps'.trailIndex][i] = Store3(r)
        /\ (/\ ps.currentAttractor = "lorenz"
            /\ ps.currentParams = [sigma |-> 10 * One, rho |-> 28 * One, beta |-> (8 * One) \div 3]
            /\ ps.particleCount = 1 /\ ps.trailLength = 1
            /\ ps.trailPositions[0][0] = <<One, One, 26 * One>>
            /\ call'.speed = One)
           => ps'.trailPositions[0][0] =
                 <<One, One + (5 * One) \div 1000,
                   26 * One + ((One - (8 * 26 * One) \div 3) * 5) \div 1000>>]_vars

\* The lorenz scenario after its advance(1).
C9_Witness ==
    /\ pc = "live" /\ call.op = "update" /\ call.speed = One
    /\ ps.currentAttractor = "lorenz" /\ ps.particleCount = 1 /\ ps.trailLength = 1
    /\ ps.currentParams = attractors["lorenz"].params
    /\ ps.trailPositions[0][0] = <<6000, 6030, 153950>>

\* C10: setColors(start, end) leaves the color buffer, positions, sizes, ring
\* and trailIndex unchanged at the call; after the next repack (advance or
\* setActiveField) every color of the buffer is a blend of the new endpoints.
C10_SetColorsTakesEffectOnRepack ==
    [][/\ call'.op = "setColors" =>
             ps' = [ps EXCEPT !.colorStart = call'.start, !.colorEnd = call'.end]
       /\ call'.op \in {"update", "setAttractor"} =>
             /\ ps'.colorStart = ps.colorStart /\ ps'.colorEnd = ps.colorEnd
             /\ \A k \in Points(ps) :
                  LET f == DivInt(k % ps.trailLength, ps.trailLength)
                      c1 == ps.colorEnd
                      c2 == ps.colorStart
                  IN ps'.colors[k] = <<c1[1] + Mul(c2[1] - c1[1], f),
                                       c1[2] + Mul(c2[2] - c1[2], f),
                                       c1[3] + Mul(c2[3] - c1[3], f)>>]_vars

\* A repack after setColors(White, Black): the buffer holds greys only.
C10_Witness ==
    /\ pc = "live" /\ call.op = "update"
    /\ ps.colorStart = White /\ ps.colorEnd = Black
    /\ ps.trailLength = 3
    /\ \A k \in Points(ps) : ps.colors[k] = <<2000 * (k % 3), 2000 * (k % 3), 2000 * (k % 3)>>

\* C11: the catalog lookup returns the field descriptor for each of the eight
\* known identifiers and fails with UnknownFieldError for every other
\* identifier, case variants and partial names included; it never returns an
\* absent (undefined) descriptor.
C11_LookupKnownOrError ==
    call.op = "get" =>
        /\ found.kind # "undefined"
        /\ IF call.attractor \in FieldIds
           THEN err = "none" /\ found = [kind |-> "descriptor", value |-> attractors[call.attractor]]
           ELSE err = "UnknownFieldError"

EngineCalls == {"boot", "frame", "field", "param", "color", "count", "trail"}
Replacements == {"field", "count", "trail"}

\* C12: in the driver, a resize (Count or Trail Length) or a field change
\* disposes the old engine and installs, within the same callback, a newly
\* constructed engine whose buffers have the new size; in every interleaving
\* of frame and GUI callbacks every later update, setParams, setColors or
\* getParticleCount call goes to the installed engine, and the replaced
\* engine is never touched again.
C12_ReplacedEngineNeverUsed ==
    [][/\ call'.op \in Replacements =>
             /\ retired' = dispose(ps) /\ retired'.disposed
             /\ gen' = gen + 1
             /\ ~ps'.disposed
             /\ ps'.currentAttractor = settings'.attractor
             /\ ps'.particleCount = settings'.particleCount
             /\ ps'.trailLength = settings'.trailLength
             /\ DOMAIN ps'.positions = 0..(settings'.particleCount * settings'.trailLength - 1)
             /\ DOMAIN ps'.colors = DOMAIN ps'.positions
             /\ DOMAIN ps'.sizes = DOMAIN ps'.positions
             /\ ret' = settings'.particleCount * settings'.trailLength
       /\ call'.op \in EngineCalls => callee' = gen'
       /\ call'.op \in {"frame", "param", "color"} => retired' = retired /\ gen' = gen]_vars

\* A parameter slider has been moved after a trail resize: the call went to
\* the new engine, and the disposed one kept the old parameters.
C12_Witness ==
    /\ call.op = "param" /\ gen >= 2 /\ callee = gen
    /\ retired.disposed /\ ~ps.disposed
    /\ retired.trailLength # ps.trailLength
    /\ ps.currentParams = call.params
    /\ retired.currentParams # call.params

AdvancesSinceReseed == IF history = <<>> \/ DOMAIN history.path = {} THEN 0
                       ELSE Len(history.path[0]) - 1

\* C13: each advance, for every particle, reads the ring slot at the current
\* trailIndex, overwrites exactly the slot (trailIndex + trailLength - 1) mod
\* trailLength, leaves the particle's other slots unchanged, and then sets
\* trailIndex to the slot just written; trailIndex stays in [0, trailLength)
\* and is back at its starting value after exactly trailLength advances, not
\* earlier (with one slot, the slot is read before it is overwritten).
C13_RingRotation ==
    [][call'.op = "update" =>
        LET L == ps.trailLength
            w == (ps.trailIndex + L - 1) % L
        IN /\ ps'.trailIndex = w
           /\ ps'.trailIndex \in 0..(L - 1)
           /\ ps'.trailLength = L
           /\ \A i \in Particles(ps) :
                LET r == step(ps.currentAttractor, ps.trailPositions[ps.trailIndex][i],
                              ps.currentParams, Mul(DtOf(ps), call'.speed))
                IN /\ \A t \in Slots(ps) \ {w} :
                        ps'.trailPositions[t][i] = ps.trailPositions[t][i]
                   /\ IF Finite3(r) THEN ps'.trailPositions[w][i] = Store3(r)
                      ELSE InCube(ps'.trailPositions[w][i], ScaleOf(ps))
           /\ (ps'.trailIndex = history'.origin) <=> (AdvancesSinceReseed' % L = 0)]_vars

\* Three advances of a three-slot ring after construction: trailIndex is back
\* at 0 and the three slots hold three different positions.
C13_Witness ==
    /\ pc = "live" /\ call.op = "update"
    /\ ps.trailLength = 3 /\ AdvancesSinceReseed = 3
    /\ history.origin = 0 /\ ps.trailIndex = 0
    /\ ps.trailPositions[0][0] # ps.trailPositions[1][0]
    /\ ps.trailPositions[1][0] # ps.trailPositions[2][0]
    /\ ps.trailPositions[0][0] # ps.trailPositions[2][0]

\* A raw position as the renderable buffer holds it: times the display scale.
Rendered(v, scale) == Store3(<<Mul(v[1], scale), Mul(v[2], scale), Mul(v[3], scale)>>)

\* The position of particle i written `age` advances ago; before the reseed
\* there is none, and the seed position stands for it.
Retained(i, age) ==
    LET path == history.path[i]
    IN path[IF age + 1 <= Len(path) THEN age + 1 ELSE Len(path)]

Newest(i) == Retained(i, 0)
Oldest(i) == Retained(i, ps.trailLength - 1)

\* C14 (as claimed): after every advance the renderable position of point
\* i * trailLength + t is ring slot (trailIndex + t) mod trailLength of
\* particle i times the display scale, and the walk runs oldest to newest:
\* t = 0 is the oldest retained position, t = trailLength - 1 the position
\* this advance wrote.
C14_PackedOldestFirst ==
    (pc = "live" /\ call.op = "update") =>
        \A i \in Particles(ps) :
           /\ \A t \in Slots(ps) :
                ps.positions[i * ps.trailLength + t] =
                   Rendered(ps.trailPositions[(ps.trailIndex + t) % ps.trailLength][i], ScaleOf(ps))
           /\ ps.positions[i * ps.trailLength] = Rendered(Oldest(i), ScaleOf(ps))
           /\ ps.positions[i * ps.trailLength + ps.trailLength - 1] = Rendered(Newest(i), ScaleOf(ps))

\* C14 (amended): the same positions, and the walk runs newest to oldest:
\* point t holds the position written t advances ago, so t = 0 is the
\* position this advance wrote and t = trailLength - 1 the oldest retained.
C14_PackedNewestFirst ==
    (pc = "live" /\ call.op = "update") =>
        \A i \in Particles(ps) : \A t \in Slots(ps) :
           /\ ps.positions[i * ps.trailLength + t] =
                 Rendered(ps.trailPositions[(ps.trailIndex + t) % ps.trailLength][i], ScaleOf(ps))
           /\ ps.positions[i * ps.trailLength + t] = Rendered(Retained(i, t), ScaleOf(ps))

\* Two advances of a three-slot ring: the three points of particle 0 are the
\* latest position, the one before it and the seed, all different.
C14_Witness ==
    /\ pc = "live" /\ call.op = "update"
    /\ ps.trailLength = 3 /\ ps.particleCount = 2 /\ AdvancesSinceReseed = 2
    /\ ps.positions[0] = Rendered(Newest(0), ScaleOf(ps))
    /\ ps.positions[2] = Rendered(Oldest(0), ScaleOf(ps))
    /\ ps.positions[0] # ps.positions[1]
    /\ ps.positions[1] # ps.positions[2]
    /\ ps.positions[0] # ps.positions[2]

Repacked == pc = "live" /\ call.op \in {"construct", "setAttractor", "update"}

\* The point of particle i that is t places into its trail.
PointOf(i, t) == i * ps.trailLength + t

\* The blend from color c1 to color c2 at fraction f.
Blend(c1, c2, f) ==
    <<c1[1] + Mul(c2[1] - c1[1], f), c1[2] + Mul(c2[2] - c1[2], f), c1[3] + Mul(c2[3] - c1[3], f)>>

BaseSize == (5 * One) \div 2
Three10ths == (3 * BaseSize) \div 10

\* t / trailLength as a number.
AgeFraction(t, L) == (2 * t * One + L) \div (2 * L)

SlotAt(t) == (ps.trailIndex + t) % ps.trailLength

\* Every particle's ring holds, t places after trailIndex, the position
\* written t advances ago, and the seed position where there is none; all
\* particles have been advanced the same number of times.
RingHoldsMostRecent ==
    (pc = "live" /\ history # <<>>) =>
        /\ DOMAIN history.path = Particles(ps)
        /\ \A i \in Particles(ps) :
             /\ Len(history.path[i]) = AdvancesSinceReseed + 1
             /\ \A t \in Slots(ps) : ps.trailPositions[SlotAt(t)][i] = Retained(i, t)

\* C17: after k advances following a reseed (construct or setActiveField)
\* each particle's ring holds exactly its min(k + 1, trailLength) most recent
\* positions, one per frame, none skipped or duplicated, the remaining slots
\* still holding the seed position; the slot each advance overwrites is the
\* one holding the particle's oldest retained position, and all particles'
\* trails have the same age structure.
C17_RingHoldsMostRecent ==
    [][/\ RingHoldsMostRecent'
       /\ call'.op = "update" =>
             \A i \in Particles(ps) :
                /\ ps.trailPositions[ps'.trailIndex][i] = Oldest(i)
                /\ \A t \in Slots(ps) \ {ps'.trailIndex} :
                     ps'.trailPositions[t][i] = ps.trailPositions[t][i]]_vars

\* Four advances of a three-slot ring: the ring holds the last three
\* positions of particle 0, all different, and the seed position is gone.
C17_Witness ==
    /\ pc = "live" /\ call.op = "update"
    /\ ps.trailLength = 3 /\ ps.particleCount = 2 /\ AdvancesSinceReseed = 4
    /\ \A t \in 0..2 : ps.trailPositions[SlotAt(t)][0] = history.path[0][t + 1]
    /\ \A t \in 0..2 : ps.trailPositions[t][0] # history.path[0][5]
    /\ ps.trailPositions[0][0] # ps.trailPositions[1][0]
    /\ ps.trailPositions[1][0] # ps.trailPositions[2][0]
    /\ ps.trailPositions[0][0] # ps.trailPositions[2][0]

\* C18: in the driver, after any sequence of GUI events (parameter sliders,
\* Count, Trail Length, field selection) interleaved with frames, the working
\* parameter snapshot of the installed engine equals the values the parameter
\* sliders hold.
C18_EngineFollowsSliders ==
    (pc = "live" /\ gen > 0) => ps.currentParams = sliders.params

====
